---- MODULE Spec2Model ----
(***************************************************************************)
(* Model of shanoir2bids_heudiconv.py: the configuration loader            *)
(* (read_json_config_file), the DownloadShanoirDatasetToBIDS object, its   *)
(* per-subject pass (download_subject), the subject loop (download), the   *)
(* heuristic that generate_heuristic_file emits, and main().               *)
(*                                                                         *)
(* The program is single threaded.  The external collaborators (search,    *)
(* download, archive extraction, conversion workflow) are the environment: *)
(* their answers and their failures are chosen nondeterministically.       *)
(* The program has no try/except: an exception raised anywhere unwinds the *)
(* enclosing `with` blocks and terminates the process.                     *)
(*                                                                         *)
(* Spec is the whole run, from main() to the end of download().            *)
(* SpecHeuristic applies the infotodict of a written heuristic file to the *)
(* series the converter reports; the conversion workflow itself is not     *)
(* part of the program.                                                    *)
(* SpecQuery is the whole run for documents that differ in the session and *)
(* date filters of the query.  SpecRename applies the find-and-replace     *)
(* loop of the item loop to a subject name.                                *)
(***************************************************************************)
EXTENDS Integers, Sequences, FiniteSets, TLC

\* ------------------------------------------------------------------ bounds
MaxSubjects == 2      \* longest subject list of a configuration document
MaxRules == 2         \* longest data_to_bids list of a configuration document
MaxItems == 2         \* most items the searches of one subject pass return
MaxSeries == 2        \* most series the converter reports to infotodict
MaxMapping == 2       \* longest bids_mapping list given to the heuristic alone
MaxOptions == 1       \* most options used in one run: non-mandatory keys of
                      \* the document, --outformat, --longitudinal
MaxFars == 2          \* longest find_and_replace_subject list applied alone
MaxNameLen == 3       \* longest generated subject name given to such a list

\* ------------------------------------------------- keys of the json file
K_JSON_STUDY_NAME == "study_name"
K_JSON_L_SUBJECTS == "subjects"
K_JSON_SESSION == "session"
K_JSON_DATA_DICT == "data_to_bids"
K_JSON_FIND_AND_REPLACE == "find_and_replace_subject"
K_DCM2NIIX_PATH == "dcm2niix"
K_DCM2NIIX_OPTS == "dcm2niix_options"
K_JSON_DATE_FROM == "date_from"
K_JSON_DATE_TO == "date_to"

LIST_MANDATORY_KEYS_JSON_NoDataDict == <<K_JSON_STUDY_NAME, K_JSON_L_SUBJECTS>>

LIST_MANDATORY_KEYS_JSON ==
    <<K_JSON_STUDY_NAME, K_JSON_L_SUBJECTS, K_JSON_DATA_DICT>>

LIST_AUTHORIZED_KEYS_JSON ==
    LIST_MANDATORY_KEYS_JSON \o
    <<K_DCM2NIIX_PATH, K_DCM2NIIX_OPTS, K_JSON_DATE_FROM, K_JSON_DATE_TO,
      K_JSON_SESSION>>

SHANOIR_FILE_TYPE_NIFTI == "nifti"
SHANOIR_FILE_TYPE_DICOM == "dicom"
DEFAULT_SHANOIR_FILE_TYPE == SHANOIR_FILE_TYPE_NIFTI

\* ------------------------------------------------------------- utilities
Range(s) == {s[i] : i \in 1..Len(s)}

\* A value a Python name has before its first assignment.
UNBOUND == <<"<unbound>">>
UNBOUND_SESSION == "<unbound>"
None == "<None>"

\* --------------------------------------------- configuration documents
\* A key that no version of the program knows.
UnknownKey == "comment"

OptionalDocKeys ==
    {K_JSON_SESSION, K_JSON_FIND_AND_REPLACE, K_DCM2NIIX_PATH, K_DCM2NIIX_OPTS,
     K_JSON_DATE_FROM, K_JSON_DATE_TO, UnknownKey}

\* A text the program edits or joins into the query is the sequence of its
\* characters; a text without a space that is only joined may be one piece.
SubjectName(i) ==
    IF i % 2 = 1 THEN <<"s", " ", "A">> ELSE <<"s", " ", "B">>

\* The i-th row of a data_to_bids list.
RuleAt(i) ==
    IF i % 2 = 1
    THEN [datasetName |-> <<"T", "1", " ", "w">>, bidsDir |-> "anat", bidsName |-> "T1w",
          bidsSession |-> "01"]
    ELSE [datasetName |-> <<"T", "2", " ", "w">>, bidsDir |-> "anat", bidsName |-> "T2w",
          bidsSession |-> "02"]

DataDicts == {[i \in 1..n |-> RuleAt(i)] : n \in 0..MaxRules}

\* The values a document gives to its optional keys.
DocStudyName == <<"S", " ", "1">>
DocSession == <<"V", " ", "1">>
DocFars == <<[find |-> <<" ">>, replace |-> <<"_">>]>>
DocDcm2niixPath == "/usr/bin/dcm2niix"
DocDcm2niixOpts == "opts"
DocDateFrom == <<"2014-03-21T00:00:00Z">>
DocDateTo == <<"2014-03-22T00:00:00Z">>

\* The documents the model loads: any subset of the mandatory keys, at most
\* MaxOptions other keys, and a possibly empty value for each mandatory key
\* that is present.  The value of an absent key is not part of the document
\* (it is fixed so that it adds no state).
Documents ==
    { [keys |-> m \cup o, study_name |-> st, subjects |-> su,
       data_to_bids |-> dd, date_from |-> DocDateFrom,
       date_to |-> DocDateTo] :
        m \in SUBSET Range(LIST_MANDATORY_KEYS_JSON),
        o \in {x \in SUBSET OptionalDocKeys : Cardinality(x) <= MaxOptions},
        st \in {<<>>, DocStudyName},
        su \in {[i \in 1..n |-> SubjectName(i)] : n \in 0..MaxSubjects},
        dd \in DataDicts }

WellFormedDocument(d) ==
    /\ (K_JSON_STUDY_NAME \notin d.keys => d.study_name = <<>>)
    /\ (K_JSON_L_SUBJECTS \notin d.keys => d.subjects = <<>>)
    /\ (K_JSON_DATA_DICT \notin d.keys => d.data_to_bids = <<>>)

\* data[key] of the loaded json tree.
DocValue(data, key) ==
    CASE key = K_JSON_STUDY_NAME -> data.study_name
      [] key = K_JSON_L_SUBJECTS -> data.subjects
      [] key = K_JSON_DATA_DICT -> data.data_to_bids
      [] key = K_JSON_SESSION -> DocSession
      [] key = K_JSON_FIND_AND_REPLACE -> DocFars
      [] key = K_DCM2NIIX_PATH -> DocDcm2niixPath
      [] key = K_DCM2NIIX_OPTS -> DocDcm2niixOpts
      [] key = K_JSON_DATE_FROM -> data.date_from
      [] key = K_JSON_DATE_TO -> data.date_to

\* ------------------------------------------------ read_json_config_file
\* `not key in data.keys()` of the mandatory-key loop.
KeyAbsentOrEmpty(data, key) ==
    \/ key \notin data.keys
    \/ key = K_JSON_STUDY_NAME /\ data.study_name = <<>>
    \/ key = K_JSON_L_SUBJECTS /\ data.subjects = <<>>
    \/ key = K_JSON_DATA_DICT /\ data.data_to_bids = <<>>

KeyAbsent(data, key) == key \notin data.keys

\* The keys for which 'Unknown key "{}" for data dictionary' is printed.
UnknownKeysPrinted(data) ==
    {key \in data.keys : key \notin Range(LIST_AUTHORIZED_KEYS_JSON)}

\* The mandatory keys the loop finds absent, in the order of the loop.
MissingMandatoryKeys(data) ==
    SelectSeq(LIST_MANDATORY_KEYS_JSON, LAMBDA key : KeyAbsent(data, key))

\* The outcome of read_json_config_file: "exit" (sys.exit with the message
\* naming `key`), "KeyError" (data[key] of an absent key) or "ok" with the
\* nine returned values.
read_json_config_file(data) ==
    LET missing == MissingMandatoryKeys(data)
        absent == {key \in {K_JSON_STUDY_NAME, K_JSON_L_SUBJECTS,
                            K_JSON_DATA_DICT} : key \notin data.keys}
        base == [outcome |-> "ok", key |-> "",
                 printed |-> UnknownKeysPrinted(data),
                 study_id |-> <<>>, subjects |-> <<>>,
                 session_id |-> <<"*">>,
                 data_dict |-> <<>>, list_fars |-> <<>>,
                 dcm2niix_path |-> None, dcm2niix_opts |-> None,
                 date_from |-> <<"*">>, date_to |-> <<"*">>]
    IN  IF missing # <<>>
        THEN [base EXCEPT !.outcome = "exit", !.key = Head(missing)]
        ELSE IF absent # {}
        THEN [base EXCEPT !.outcome = "KeyError",
                          !.key = IF K_JSON_STUDY_NAME \in absent
                                  THEN K_JSON_STUDY_NAME
                                  ELSE IF K_JSON_L_SUBJECTS \in absent
                                  THEN K_JSON_L_SUBJECTS
                                  ELSE K_JSON_DATA_DICT]
        ELSE [base EXCEPT
                !.study_id = data.study_name,
                !.subjects = data.subjects,
                !.data_dict = data.data_to_bids,
                !.list_fars = IF K_JSON_FIND_AND_REPLACE \in data.keys
                              THEN DocValue(data, K_JSON_FIND_AND_REPLACE)
                              ELSE <<>>,
                !.dcm2niix_path = IF K_DCM2NIIX_PATH \in data.keys
                                  THEN DocValue(data, K_DCM2NIIX_PATH)
                                  ELSE None,
                !.dcm2niix_opts = IF K_DCM2NIIX_OPTS \in data.keys
                                  THEN DocValue(data, K_DCM2NIIX_OPTS)
                                  ELSE None,
                \* an empty date assigns data_from / data_to, names that
                \* are not returned: date_from / date_to keep their default
                !.date_from = IF /\ K_JSON_DATE_FROM \in data.keys
                                 /\ DocValue(data, K_JSON_DATE_FROM) # <<>>
                              THEN DocValue(data, K_JSON_DATE_FROM)
                              ELSE <<"*">>,
                !.date_to = IF /\ K_JSON_DATE_TO \in data.keys
                               /\ DocValue(data, K_JSON_DATE_TO) # <<>>
                            THEN DocValue(data, K_JSON_DATE_TO)
                            ELSE <<"*">>,
                !.session_id = IF K_JSON_SESSION \in data.keys
                               THEN DocValue(data, K_JSON_SESSION)
                               ELSE <<"*">>]
\* ------------------------------------- the heuristic that is written out
\* The text "run-{item:02d}_" of a filename template.  A template is the
\* sequence of the pieces create_key joins.
RUN_ITEM == "run-{item:02d}_"

\* outtype of generate_heuristic_file.
Outtype(output_type) ==
    IF output_type = "dicom" THEN <<"dicom">>
    ELSE IF output_type = "nifti" THEN <<"nii.gz">>
    ELSE <<"dicom", "nii.gz">>

\* create_bids_key of the heuristic: reproin's create_key returns
\* (template, outtype, annotation_classes).
create_bids_key(dataset, outtype) ==
    [template |-> <<"{bids_subject_session_dir}/", dataset.bidsDir,
                    "/{bids_subject_session_prefix}_", RUN_ITEM,
                    dataset.bidsName>>,
     outtype |-> outtype]

\* A Python dict is the sequence of its (key, value) pairs in insertion
\* order.  d[k] = v replaces the value of k in place, or appends the pair.
DictKeys(d) == {d[i][1] : i \in 1..Len(d)}

DictGet(d, k) == d[CHOOSE i \in 1..Len(d) : d[i][1] = k][2]

DictSet(d, k, v) ==
    IF k \in DictKeys(d)
    THEN [i \in 1..Len(d) |-> IF d[i][1] = k THEN <<k, v>> ELSE d[i]]
    ELSE Append(d, <<k, v>>)

RECURSIVE get_dataset_to_key_mapping(_, _)
get_dataset_to_key_mapping(shanoir2bids, outtype) ==
    IF shanoir2bids = <<>> THEN <<>>
    ELSE LET n == Len(shanoir2bids)
             dataset == shanoir2bids[n]
         IN  DictSet(get_dataset_to_key_mapping(SubSeq(shanoir2bids, 1, n - 1),
                                                outtype),
                     dataset.datasetName, create_bids_key(dataset, outtype))

\* key[0].replace('run-{item:02d}_', '')
StripRun(template) == SelectSeq(template, LAMBDA piece : piece # RUN_ITEM)

\* The test of simplify_runs that drops the run index.
OneRunOrTwo(runs) == Len(runs) <= 2

OneRunOnly(runs) == Len(runs) = 1

RECURSIVE simplify_runs(_)
simplify_runs(info) ==
    IF info = <<>> THEN <<>>
    ELSE LET n == Len(info)
             key == info[n][1]
             new_key == [key EXCEPT !.template = StripRun(key.template)]
             info_final == simplify_runs(SubSeq(info, 1, n - 1))
         IN  IF OneRunOnly(info[n][2])
             THEN DictSet(info_final, new_key, info[n][2])
             ELSE DictSet(info_final, key, info[n][2])

\* The loop of infotodict over seqinfo[1..n]; the series id of a series is
\* its position in seqinfo.
RECURSIVE InfoLoop(_, _, _)
InfoLoop(seqinfo, n, dataset_to_key) ==
    IF n = 0 THEN <<>>
    ELSE LET info == InfoLoop(seqinfo, n - 1, dataset_to_key)
             descr == seqinfo[n]
         IN  IF descr \in DictKeys(dataset_to_key)
             THEN LET key == DictGet(dataset_to_key, descr)
                  IN  IF key \in DictKeys(info)
                      THEN DictSet(info, key, Append(DictGet(info, key), n))
                      ELSE DictSet(info, key, <<n>>)
             ELSE info

infotodict(seqinfo, shanoir2bids, outtype) ==
    simplify_runs(InfoLoop(seqinfo, Len(seqinfo),
                           get_dataset_to_key_mapping(shanoir2bids, outtype)))

\* ------------------------------------------------------ str.replace
RECURSIVE Replace(_, _, _)
Replace(s, old, new) ==
    IF old = <<>>
    THEN IF s = <<>> THEN new
         ELSE new \o <<Head(s)>> \o Replace(Tail(s), old, new)
    ELSE IF Len(s) < Len(old) THEN s
    ELSE IF SubSeq(s, 1, Len(old)) = old
    THEN new \o Replace(SubSeq(s, Len(old) + 1, Len(s)), old, new)
    ELSE <<Head(s)>> \o Replace(Tail(s), old, new)

\* The find-and-replace loop with the rules taken last to first.
RECURSIVE ApplyFarsReversed(_, _, _)
ApplyFarsReversed(su_id, list_fars, n) ==
    IF n = 0 THEN su_id
    ELSE ApplyFarsReversed(Replace(su_id, list_fars[n].find,
                                   list_fars[n].replace), list_fars, n - 1)

\* The find-and-replace loop of download_subject over list_fars[1..n].
RECURSIVE ApplyFars(_, _, _)
ApplyFars(su_id, list_fars, n) ==
    IF n = 0 THEN su_id
    ELSE Replace(ApplyFars(su_id, list_fars, n - 1),
                 list_fars[n].find, list_fars[n].replace)
\* ------------------------------------------------------------ environment
DatasetNames == {RuleAt(1).datasetName, RuleAt(2).datasetName}

\* Status codes the search collaborator answers with.
StatusCodes == {200, 204, 500}

\* The items a query for a subject can return.  A space of the query is a
\* wildcard, so neither the dataset name nor the subject name of an item is
\* fixed by the query: an item has the first dataset name and the subject
\* name as searched, or the second dataset name and the subject name with
\* another character in the place of each space.
Items(subject) ==
    {[datasetName |-> RuleAt(1).datasetName, subjectName |-> subject],
     [datasetName |-> RuleAt(2).datasetName,
      subjectName |-> [i \in 1..Len(subject) |->
                         IF subject[i] = " " THEN "-" ELSE subject[i]]]}

\* response.json()["content"] of a query for a subject, when the pass can
\* still be given `room` items.
Contents(subject, room) ==
    UNION { [1..n -> Items(subject)] : n \in 0..room }

Responses(subject, room) ==
    {[status_code |-> 200, content |-> c] : c \in Contents(subject, room)}
    \cup {[status_code |-> st, content |-> <<>>] : st \in StatusCodes \ {200}}

\* What the converter finds in the files: the series descriptions, in order.
SeqInfos ==
    UNION { [1..n -> DatasetNames \cup {<<"l", "o", "c">>}] : n \in 0..MaxSeries }

\* ------------------------------------------------------------------ state
VARIABLES
    argv,             \* command line: outformat, longitudinal
    doc,              \* the json configuration document
    pc,               \* position of the program
    exc,              \* the exception that ended the process, if any
    exit_msg,         \* the key named by sys.exit, if any
    printed,          \* the keys reported as unknown on stdout
    stb,              \* the DownloadShanoirDatasetToBIDS instance
    subject_n,        \* download(): position in shanoir_subjects
    seq,              \* download_subject(): the loop variable seq (from 1)
    content,          \* download_subject(): response.json()["content"]
    item_n,           \* download_subject(): position in content
    bids_mapping,     \* download_subject(): the local bids_mapping
    subject_id,       \* download_subject(): the local subject_id
    bids_seq_session, \* download_subject(): the local bids_seq_session
    search_txt,       \* download_subject(): the local search_txt
    returned,         \* the items the searches of the current pass have
                      \* returned, each with the position of its rule
    tmp,              \* temporary directories and files that exist
    log,              \* the lines the current pass has appended to the run
                      \* log through its handle fp
    calls,            \* number of calls the current pass has made to each
                      \* collaborator
    heuristic,        \* what the heuristic file of this pass contains
    workflow_params,  \* the parameters of the last workflow call
    seqinfo,          \* the series the converter gives to infotodict
    info_final        \* what infotodict returns for them

vars == <<argv, doc, pc, exc, exit_msg, printed, stb, subject_n, seq, content,
          item_n, bids_mapping, subject_id, bids_seq_session, search_txt,
          returned, tmp, log, calls, heuristic, workflow_params, seqinfo,
          info_final>>

\* DownloadShanoirDatasetToBIDS.__init__
NewStb ==
    [shanoir_subjects |-> <<>>, shanoir2bids_dict |-> <<>>,
     shanoir_study_id |-> <<>>, shanoir_session_id |-> <<>>,
     shanoir_file_type |-> DEFAULT_SHANOIR_FILE_TYPE,
     output_file_type |-> DEFAULT_SHANOIR_FILE_TYPE,
     list_fars |-> <<>>, n_seq |-> 0,
     dcm2niix_path |-> None, dcm2niix_opts |-> None,
     date_from |-> <<>>, date_to |-> <<>>, longitudinal |-> FALSE]

NoCalls ==
    [search |-> 0, download |-> 0, extract |-> 0, heuristic |-> 0,
     dcmconfig |-> 0, workflow |-> 0]

NoHeuristic == [written |-> FALSE, shanoir2bids |-> <<>>, outtype |-> <<>>]

NoWorkflow == [called |-> FALSE, subjs |-> <<>>, session |-> None]

\* The number of options a run uses.
OptionsUsed(d, a) ==
    Cardinality(d.keys \cap OptionalDocKeys)
    + (IF a.outformat # "nifti" THEN 1 ELSE 0)
    + (IF a.longitudinal THEN 1 ELSE 0)

Init ==
    /\ argv \in [outformat : {"nifti", "dicom", "both"},
                 longitudinal : BOOLEAN]
    /\ doc \in {d \in Documents : WellFormedDocument(d)}
    /\ OptionsUsed(doc, argv) <= MaxOptions
    /\ pc = "main"
    /\ exc = ""
    /\ exit_msg = ""
    /\ printed = {}
    /\ stb = NewStb
    /\ subject_n = 0
    /\ seq = 0
    /\ content = <<>>
    /\ item_n = 0
    /\ bids_mapping = <<>>
    /\ subject_id = UNBOUND
    /\ bids_seq_session = UNBOUND_SESSION
    /\ search_txt = <<>>
    /\ returned = <<>>
    /\ tmp = {}
    /\ log = <<>>
    /\ calls = NoCalls
    /\ heuristic = NoHeuristic
    /\ workflow_params = NoWorkflow
    /\ seqinfo = <<>>
    /\ info_final = <<>>

\* ------------------------------------------------------------ the setters
\* set_shanoir2bids_dict
set_shanoir2bids_dict(self, data_dict) ==
    [self EXCEPT !.shanoir2bids_dict = data_dict, !.n_seq = Len(data_dict)]

\* set_output_file_type: the value is stored in shanoir_file_type.
set_output_file_type(self, output_file_type) ==
    [self EXCEPT !.shanoir_file_type = output_file_type]

\* set_json_config_file, after read_json_config_file has returned cfg.
set_json_config_file(self, cfg) ==
    [set_shanoir2bids_dict(self, cfg.data_dict) EXCEPT
        !.shanoir_study_id = cfg.study_id,
        !.shanoir_subjects = cfg.subjects,
        !.shanoir_session_id = cfg.session_id,
        !.list_fars = cfg.list_fars,
        !.dcm2niix_path = cfg.dcm2niix_path,
        !.dcm2niix_opts = cfg.dcm2niix_opts,
        !.date_from = cfg.date_from,
        !.date_to = cfg.date_to]

\* ---------------------------------------------------------------- main()
\* main(): the instance is configured from the document and the command
\* line; a missing mandatory key ends the process in sys.exit.
Main ==
    /\ pc = "main"
    /\ LET cfg == read_json_config_file(doc)
       IN  /\ printed' = cfg.printed
           /\ IF cfg.outcome = "exit"
              THEN /\ pc' = "exited"
                   /\ exit_msg' = cfg.key
                   /\ UNCHANGED <<exc, stb>>
              ELSE IF cfg.outcome = "KeyError"
              THEN /\ pc' = "crashed"
                   /\ exc' = "KeyError"
                   /\ UNCHANGED <<exit_msg, stb>>
              ELSE /\ pc' = "download"
                   /\ stb' = [set_output_file_type(
                                  set_json_config_file(stb, cfg),
                                  argv.outformat)
                              EXCEPT !.longitudinal = argv.longitudinal]
                   /\ UNCHANGED <<exc, exit_msg>>
    /\ UNCHANGED <<argv, doc, subject_n, seq, content, item_n, bids_mapping,
                   subject_id, bids_seq_session, tmp, log, calls, heuristic,
                   workflow_params, seqinfo, info_final,
                   search_txt, returned>>
\* --------------------------------------------------- scoped resources
\* The temporary directory or file that download_subject binds to `name`
\* in its pass number n.
TmpName(name, n) == [name |-> name, pass |-> n]

\* Leaving the `with` block of `name`: the directory or file is removed.
ExitWithKeepDicom(t, name) ==
    IF name = "tmp_dicom" THEN t ELSE {f \in t : f.name # name}

ExitWith(t, name) == {f \in t : f.name # name}

\* Leaving every `with` block of download_subject, innermost first, as an
\* exception (or the end of the function) does.
Unwind(t) ==
    ExitWith(ExitWith(ExitWith(ExitWith(t, "dcm2niix_config_file"),
                               "heuristic_file"), "tmp_archive"), "tmp_dicom")

LogLine(kind, status, name) == [kind |-> kind, status |-> status, name |-> name]

Called(what) == [calls EXCEPT ![what] = @ + 1]

\* An exception nobody catches: the `with` blocks are left and the process
\* ends.
Raise(e) ==
    /\ pc' = "crashed"
    /\ exc' = e
    /\ tmp' = Unwind(tmp)

\* ------------------------------------------------------------- download()
\* download() up to its loop: the log file is opened for writing.
Download_Begin ==
    /\ pc = "download"
    /\ pc' = "subjects"
    /\ log' = <<>>
    /\ UNCHANGED <<argv, doc, exc, exit_msg, printed, stb, subject_n, seq,
                   content, item_n, bids_mapping, subject_id, bids_seq_session,
                   tmp, calls, heuristic, workflow_params, seqinfo, info_final,
                   search_txt, returned>>

\* The loop of download() takes the next subject and enters
\* download_subject: bids_mapping = [] and the two temporary directories.
Download_Subject ==
    /\ pc = "subjects"
    /\ subject_n < Len(stb.shanoir_subjects)
    /\ subject_n' = subject_n + 1
    /\ pc' = "seq"
    /\ seq' = 1
    /\ content' = <<>>
    /\ item_n' = 0
    /\ bids_mapping' = <<>>
    /\ subject_id' = UNBOUND
    /\ bids_seq_session' = UNBOUND_SESSION
    /\ search_txt' = <<>>
    /\ returned' = <<>>
    /\ tmp' = tmp \cup {TmpName("tmp_dicom", subject_n + 1),
                        TmpName("tmp_archive", subject_n + 1)}
    /\ heuristic' = NoHeuristic
    /\ workflow_params' = NoWorkflow
    /\ log' = <<>>
    /\ calls' = NoCalls
    /\ UNCHANGED <<argv, doc, exc, exit_msg, printed, stb, seqinfo, info_final>>

\* The loop of download() is exhausted.
Download_Done ==
    /\ pc = "subjects"
    /\ subject_n >= Len(stb.shanoir_subjects)
    /\ pc' = "done"
    /\ UNCHANGED <<argv, doc, exc, exit_msg, printed, stb, subject_n, seq,
                   content, item_n, bids_mapping, subject_id, bids_seq_session,
                   tmp, log, calls, heuristic, workflow_params, seqinfo, info_final,
                   search_txt, returned>>

\* ----------------------------------------------------- download_subject()
subject_to_search == stb.shanoir_subjects[subject_n]

\* bids_seq_session after the head of one iteration of the seq loop.
SessionOfRule ==
    IF stb.longitudinal THEN stb.shanoir2bids_dict[seq].bidsSession
    ELSE bids_seq_session

\* search_txt with the session filter edited like the three names.
SearchTextSessionLikeNames ==
    <<"studyName:">> \o Replace(stb.shanoir_study_id, <<" ">>, <<"?">>)
    \o <<" AND datasetName:">>
    \o Replace(stb.shanoir2bids_dict[seq].datasetName, <<" ">>, <<"?">>)
    \o <<" AND subjectName:">> \o Replace(subject_to_search, <<" ">>, <<"?">>)
    \o <<" AND examinationComment:">>
    \o Replace(stb.shanoir_session_id, <<" ">>, <<"?">>)
    \o <<" AND examinationDate:[">> \o stb.date_from \o <<" TO ">>
    \o stb.date_to \o <<"]">>

\* search_txt of one iteration of the seq loop.
SearchText ==
    <<"studyName:">> \o Replace(stb.shanoir_study_id, <<" ">>, <<"?">>)
    \o <<" AND datasetName:">>
    \o Replace(stb.shanoir2bids_dict[seq].datasetName, <<" ">>, <<"?">>)
    \o <<" AND subjectName:">> \o Replace(subject_to_search, <<" ">>, <<"?">>)
    \o <<" AND examinationComment:">>
    \o Replace(stb.shanoir_session_id, <<" ">>, <<"*">>)
    \o <<" AND examinationDate:[">> \o stb.date_from \o <<" TO ">>
    \o stb.date_to \o <<"]">>

\* One iteration of the seq loop up to the dispatch on the status code of
\* the response r.
DS_Query(r) ==
    /\ pc = "seq"
    /\ seq <= stb.n_seq
    /\ bids_seq_session' = SessionOfRule
    /\ search_txt' = SearchText
    /\ returned' = returned \o [i \in 1..Len(r.content) |->
                                 [rule |-> seq, item |-> r.content[i]]]
    /\ IF r.status_code = 200
       THEN /\ calls' = [calls EXCEPT !.search = @ + 1, !.download = @ + 1]
            /\ IF Len(r.content) = 0
               THEN /\ log' = Append(log, LogLine("WARNING_0_RESULT", 0, <<>>))
                    /\ seq' = seq + 1
                    /\ UNCHANGED <<pc, content, item_n>>
               ELSE /\ content' = r.content
                    /\ item_n' = 1
                    /\ pc' = "items"
                    /\ UNCHANGED <<log, seq>>
            /\ UNCHANGED <<exc, tmp>>
       ELSE IF r.status_code = 204
       THEN /\ calls' = Called("search")
            /\ log' = Append(log, LogLine("ERROR_NO_FILE", 0, <<>>))
            /\ seq' = seq + 1
            /\ UNCHANGED <<pc, content, item_n, exc, tmp>>
       ELSE \* "ERROR ..." + response.status_code: str + int
            /\ calls' = Called("search")
            /\ Raise("TypeError")
            /\ UNCHANGED <<log, seq, content, item_n>>
    /\ UNCHANGED <<argv, doc, exit_msg, printed, stb, subject_n, bids_mapping,
                   subject_id, heuristic, workflow_params, seqinfo, info_final>>

\* solr_search raises.
DS_SearchRaises ==
    /\ pc = "seq"
    /\ seq <= stb.n_seq
    /\ bids_seq_session' = SessionOfRule
    /\ search_txt' = SearchText
    /\ UNCHANGED returned
    /\ calls' = Called("search")
    /\ Raise("SearchError")
    /\ UNCHANGED <<argv, doc, exit_msg, printed, stb, subject_n, seq, content,
                   item_n, bids_mapping, subject_id, log, heuristic,
                   workflow_params, seqinfo, info_final>>

\* The status is 200 and download_search_results raises.
DS_DownloadRaises ==
    /\ pc = "seq"
    /\ seq <= stb.n_seq
    /\ bids_seq_session' = SessionOfRule
    /\ search_txt' = SearchText
    /\ UNCHANGED returned
    /\ calls' = [calls EXCEPT !.search = @ + 1, !.download = @ + 1]
    /\ Raise("DownloadError")
    /\ UNCHANGED <<argv, doc, exit_msg, printed, stb, subject_n, seq, content,
                   item_n, bids_mapping, subject_id, log, heuristic,
                   workflow_params, seqinfo, info_final>>

\* The BidsMapping entry of an item with the target of the first rule.
BidsSeqMappingFirstRule(item, su_id) ==
    [datasetName |-> item.datasetName,
     bidsDir |-> stb.shanoir2bids_dict[1].bidsDir,
     bidsName |-> stb.shanoir2bids_dict[1].bidsName,
     bids_subject_id |-> su_id,
     bids_session_id |-> IF stb.longitudinal THEN bids_seq_session ELSE None]

\* The BidsMapping entry of an item.
BidsSeqMapping(item, su_id) ==
    [datasetName |-> item.datasetName,
     bidsDir |-> stb.shanoir2bids_dict[seq].bidsDir,
     bidsName |-> stb.shanoir2bids_dict[seq].bidsName,
     bids_subject_id |-> su_id,
     bids_session_id |-> IF stb.longitudinal THEN bids_seq_session ELSE None]

\* One iteration of the item loop: the mapping entry and the log lines are
\* written, then the archive is looked up and extracted.  archive is "ok",
\* "IndexError" (glob finds no archive) or "ExtractionError".
DS_Item(archive) ==
    /\ pc = "items"
    /\ LET item == content[item_n]
           su_id == ApplyFars(item.subjectName, stb.list_fars,
                              Len(stb.list_fars))
           logged == Append(log, LogLine("ITEM", 0, item.datasetName))
       IN  /\ subject_id' = su_id
           /\ bids_mapping' = Append(bids_mapping, BidsSeqMapping(item, su_id))
           /\ IF archive = "ok"
              THEN /\ calls' = Called("extract")
                   /\ log' = Append(logged,
                                    LogLine("EXTRACTION", 0, item.datasetName))
                   /\ IF item_n < Len(content)
                      THEN /\ item_n' = item_n + 1
                           /\ UNCHANGED <<pc, seq>>
                      ELSE /\ pc' = "seq"
                           /\ seq' = seq + 1
                           /\ UNCHANGED item_n
                   /\ UNCHANGED <<exc, tmp>>
              ELSE /\ calls' = IF archive = "IndexError" THEN calls
                               ELSE Called("extract")
                   /\ log' = logged
                   /\ Raise(archive)
                   /\ UNCHANGED <<item_n, seq>>
    /\ UNCHANGED <<argv, doc, exit_msg, printed, stb, subject_n, content,
                   bids_seq_session, heuristic, workflow_params, seqinfo, info_final,
                   search_txt, returned>>

\* The seq loop is exhausted: the `with` block of tmp_archive is left.
DS_LoopEnd ==
    /\ pc = "seq"
    /\ seq > stb.n_seq
    /\ pc' = "emit"
    /\ tmp' = ExitWith(tmp, "tmp_archive")
    /\ UNCHANGED <<argv, doc, exc, exit_msg, printed, stb, subject_n, seq,
                   content, item_n, bids_mapping, subject_id, bids_seq_session,
                   log, calls, heuristic, workflow_params, seqinfo, info_final,
                   search_txt, returned>>

\* generate_heuristic_file: what the written heuristic is made of.
generate_heuristic_file(shanoir2bids_dict, output_type) ==
    [written |-> TRUE, shanoir2bids |-> shanoir2bids_dict,
     outtype |-> Outtype(output_type)]

\* The heuristic file and the dcm2niix options file are created and written.
DS_Emit ==
    /\ pc = "emit"
    /\ pc' = "handoff"
    /\ tmp' = tmp \cup {TmpName("heuristic_file", subject_n),
                        TmpName("dcm2niix_config_file", subject_n)}
    /\ heuristic' = generate_heuristic_file(bids_mapping, stb.output_file_type)
    /\ calls' = [calls EXCEPT !.heuristic = @ + 1, !.dcmconfig = @ + 1]
    /\ UNCHANGED <<argv, doc, exc, exit_msg, printed, stb, subject_n, seq,
                   content, item_n, bids_mapping, subject_id, bids_seq_session,
                   log, workflow_params, seqinfo, info_final,
                   search_txt, returned>>

\* Writing the heuristic file raises.
DS_EmitRaises ==
    /\ pc = "emit"
    /\ calls' = Called("heuristic")
    /\ Raise("OSError")
    /\ UNCHANGED <<argv, doc, exit_msg, printed, stb, subject_n, seq, content,
                   item_n, bids_mapping, subject_id, bids_seq_session, log,
                   heuristic, workflow_params, seqinfo, info_final,
                   search_txt, returned>>

\* workflow_params with both parameters read from bids_mapping.
WorkflowParamsFromMapping ==
    [called |-> TRUE, subjs |-> <<bids_mapping[1].bids_subject_id>>,
     session |-> bids_mapping[Len(bids_mapping)].bids_session_id]

\* workflow_params of download_subject.
WorkflowParams ==
    [called |-> TRUE, subjs |-> <<subject_id>>,
     session |-> IF stb.longitudinal THEN bids_seq_session ELSE None]

\* The conversion workflow returns; download_subject returns and its `with`
\* blocks are left.
DS_Handoff ==
    /\ pc = "handoff"
    /\ subject_id # UNBOUND
    /\ workflow_params' = WorkflowParams
    /\ calls' = Called("workflow")
    /\ tmp' = Unwind(tmp)
    /\ pc' = "subjects"
    /\ UNCHANGED <<argv, doc, exc, exit_msg, printed, stb, subject_n, seq,
                   content, item_n, bids_mapping, subject_id, bids_seq_session,
                   log, heuristic, seqinfo, info_final,
                   search_txt, returned>>

\* "subjs": [subject_id] when no item was processed in this pass.
DS_HandoffUnbound ==
    /\ pc = "handoff"
    /\ subject_id = UNBOUND
    /\ Raise("UnboundLocalError")
    /\ UNCHANGED <<argv, doc, exit_msg, printed, stb, subject_n, seq, content,
                   item_n, bids_mapping, subject_id, bids_seq_session, log,
                   calls, heuristic, workflow_params, seqinfo, info_final,
                   search_txt, returned>>

\* The conversion workflow raises.
DS_WorkflowRaises ==
    /\ pc = "handoff"
    /\ subject_id # UNBOUND
    /\ workflow_params' = WorkflowParams
    /\ calls' = Called("workflow")
    /\ Raise("ConversionWorkflowError")
    /\ UNCHANGED <<argv, doc, exit_msg, printed, stb, subject_n, seq, content,
                   item_n, bids_mapping, subject_id, bids_seq_session, log,
                   heuristic, seqinfo, info_final,
                   search_txt, returned>>

Next ==
    \/ Main
    \/ Download_Begin
    \/ Download_Subject
    \/ Download_Done
    \/ (pc = "seq" /\ \E r \in Responses(subject_to_search,
                                           MaxItems - Len(returned)) :
             DS_Query(r))
    \/ DS_SearchRaises
    \/ DS_DownloadRaises
    \/ \E archive \in {"ok", "IndexError", "ExtractionError"} : DS_Item(archive)
    \/ DS_LoopEnd
    \/ DS_Emit
    \/ DS_EmitRaises
    \/ DS_Handoff
    \/ DS_HandoffUnbound
    \/ DS_WorkflowRaises

Spec == Init /\ [][Next]_vars

\* ------------------------------------------------ the query filters
\* Documents that differ in the filters of the query: the session and the
\* two dates are absent or present, and a date that is present may be the
\* empty text.
QueryDocuments ==
    { [keys |-> Range(LIST_MANDATORY_KEYS_JSON) \cup o,
       study_name |-> DocStudyName,
       subjects |-> <<SubjectName(1)>>,
       data_to_bids |-> <<RuleAt(1), RuleAt(2)>>,
       date_from |-> df, date_to |-> dt] :
        o \in SUBSET {K_JSON_SESSION, K_JSON_DATE_FROM, K_JSON_DATE_TO},
        df \in {<<>>, DocDateFrom}, dt \in {<<>>, DocDateTo} }

InitQuery ==
    /\ argv = [outformat |-> "nifti", longitudinal |-> FALSE]
    /\ doc \in {d \in QueryDocuments :
                   /\ K_JSON_DATE_FROM \notin d.keys => d.date_from = DocDateFrom
                   /\ K_JSON_DATE_TO \notin d.keys => d.date_to = DocDateTo}
    /\ pc = "main"
    /\ exc = ""
    /\ exit_msg = ""
    /\ printed = {}
    /\ stb = NewStb
    /\ subject_n = 0
    /\ seq = 0
    /\ content = <<>>
    /\ item_n = 0
    /\ bids_mapping = <<>>
    /\ subject_id = UNBOUND
    /\ bids_seq_session = UNBOUND_SESSION
    /\ search_txt = <<>>
    /\ returned = <<>>
    /\ tmp = {}
    /\ log = <<>>
    /\ calls = NoCalls
    /\ heuristic = NoHeuristic
    /\ workflow_params = NoWorkflow
    /\ seqinfo = <<>>
    /\ info_final = <<>>

SpecQuery == InitQuery /\ [][Next]_vars

\* ------------------------------------------- the written heuristic alone
\* The bids_mapping lists download_subject can hand to
\* generate_heuristic_file: each entry has the dataset name of an item and
\* the target of a row of data_to_bids.
MappingEntries ==
    {[datasetName |-> d, bidsDir |-> r.bidsDir, bidsName |-> r.bidsName,
      bids_subject_id |-> SubjectName(1), bids_session_id |-> None] :
        d \in DatasetNames, r \in {RuleAt(1), RuleAt(2)}}

MappingLists == UNION { [1..n -> MappingEntries] : n \in 0..MaxMapping }

\* A heuristic file has been written and the converter is about to call
\* its infotodict on the series it found.
InitHeuristic ==
    /\ argv = [outformat |-> "nifti", longitudinal |-> FALSE]
    /\ doc = [keys |-> {}, study_name |-> <<>>, subjects |-> <<>>,
              data_to_bids |-> <<>>, date_from |-> DocDateFrom,
              date_to |-> DocDateTo]
    /\ pc = "infotodict"
    /\ exc = ""
    /\ exit_msg = ""
    /\ printed = {}
    /\ stb = NewStb
    /\ subject_n = 0
    /\ seq = 0
    /\ content = <<>>
    /\ item_n = 0
    /\ bids_mapping = <<>>
    /\ subject_id = UNBOUND
    /\ bids_seq_session = UNBOUND_SESSION
    /\ search_txt = <<>>
    /\ returned = <<>>
    /\ tmp = {}
    /\ log = <<>>
    /\ calls = NoCalls
    /\ heuristic \in {generate_heuristic_file(m, NewStb.output_file_type) :
                         m \in MappingLists}
    /\ workflow_params = NoWorkflow
    /\ seqinfo \in SeqInfos
    /\ info_final = <<>>

\* infotodict(seqinfo) of the written heuristic.
Heuristic_Infotodict ==
    /\ pc = "infotodict"
    /\ pc' = "classified"
    /\ info_final' = infotodict(seqinfo, heuristic.shanoir2bids,
                                heuristic.outtype)
    /\ UNCHANGED <<argv, doc, exc, exit_msg, printed, stb, subject_n, seq,
                   content, item_n, bids_mapping, subject_id, bids_seq_session,
                   tmp, log, calls, heuristic, workflow_params, seqinfo,
                   search_txt, returned>>

NextHeuristic == Heuristic_Infotodict

SpecHeuristic == InitHeuristic /\ [][NextHeuristic]_vars

\* --------------------------------------- the find-and-replace loop alone
\* The rules a find_and_replace_subject list is made of.
FarRules ==
    {[find |-> f, replace |-> r] :
        f \in {<<"a">>, <<"a", "b">>, <<" ">>},
        r \in {<<>>, <<"a">>, <<"X">>, <<"_">>}}

FarLists == UNION { [1..n -> FarRules] : n \in 0..MaxFars }

JohnDoe == <<"J", "o", "h", "n", " ", "D", "o", "e">>

\* The subjectName of an item: "John Doe" or a short name over a and b.
RawSubjectNames ==
    {JohnDoe} \cup UNION { [1..n -> {"a", "b"}] : n \in 0..MaxNameLen }

\* download_subject is in its item loop, at the head of an iteration, with
\* some find_and_replace_subject list and some item.
InitRename ==
    /\ argv = [outformat |-> "nifti", longitudinal |-> FALSE]
    /\ doc = [keys |-> {}, study_name |-> <<>>, subjects |-> <<>>,
              data_to_bids |-> <<>>, date_from |-> DocDateFrom,
              date_to |-> DocDateTo]
    /\ pc = "rename"
    /\ exc = ""
    /\ exit_msg = ""
    /\ printed = {}
    /\ stb \in {[NewStb EXCEPT !.list_fars = fars] : fars \in FarLists}
    /\ subject_n = 0
    /\ seq = 0
    /\ content \in {<<[datasetName |-> RuleAt(1).datasetName,
                          subjectName |-> name]>> :
                        name \in RawSubjectNames}
    /\ item_n = 1
    /\ bids_mapping = <<>>
    /\ subject_id = UNBOUND
    /\ bids_seq_session = UNBOUND_SESSION
    /\ search_txt = <<>>
    /\ returned = <<>>
    /\ tmp = {}
    /\ log = <<>>
    /\ calls = NoCalls
    /\ heuristic = NoHeuristic
    /\ workflow_params = NoWorkflow
    /\ seqinfo = <<>>
    /\ info_final = <<>>

\* su_id = item["subjectName"]; the loop over list_fars; subject_id = su_id.
Rename_Item ==
    /\ pc = "rename"
    /\ pc' = "renamed"
    /\ subject_id' = ApplyFars(content[item_n].subjectName, stb.list_fars,
                               Len(stb.list_fars))
    /\ UNCHANGED <<argv, doc, exc, exit_msg, printed, stb, subject_n, seq,
                   content, item_n, bids_mapping, bids_seq_session, tmp, log,
                   calls, heuristic, workflow_params, seqinfo, info_final,
                   search_txt, returned>>

NextRename == Rename_Item

SpecRename == InitRename /\ [][NextRename]_vars
\* ================================================================= claims
\* The three mandatory keys, as the specification lists them.
MandatoryKeys == {K_JSON_STUDY_NAME, K_JSON_L_SUBJECTS, K_JSON_DATA_DICT}

\* The positions of the program inside download_subject.
InSubjectPass == pc \in {"seq", "items", "emit", "handoff"}

\* C1: if the document lacks a mandatory key, the process ends in sys.exit
\* with a message naming a missing key, and no query was built and no search,
\* download, extraction, heuristic or conversion call was made in the run.
C1_MissingKeyIsFatal ==
    (pc # "main" /\ ~(MandatoryKeys \subseteq doc.keys)) =>
        /\ pc = "exited"
        /\ exit_msg \in MandatoryKeys \ doc.keys
        /\ calls = NoCalls
        /\ log = <<>>
        /\ tmp = {}

C1_Witness ==
    /\ pc = "exited"
    /\ exit_msg = K_JSON_DATA_DICT
    /\ K_JSON_DATA_DICT \notin doc.keys

\* C2: when the search answers with a status other than 200 and 204, an
\* error line carrying the status code is appended to the run log and the
\* pass goes on with the next sequence rule of the same subject.
C2_QueryErrorContinues ==
    [][\A status \in StatusCodes \ {200, 204} :
          DS_Query([status_code |-> status, content |-> <<>>]) =>
             /\ log' = Append(log, LogLine("ERROR_STATUS", status, <<>>))
             /\ pc' = "seq"
             /\ seq' = seq + 1
             /\ subject_n' = subject_n]_vars

\* C3: a failure of the conversion workflow for one subject is confined to
\* that subject: when the run has ended after such a failure, download()
\* has taken every subject of the list.
C3_WorkflowFailureConfined ==
    (pc \in {"done", "crashed"} /\ exc = "ConversionWorkflowError") =>
        subject_n = Len(stb.shanoir_subjects)

\* C4: if the archive of an item cannot be located or extracted, the error
\* is logged, the item adds no entry to bids_mapping, and the pass goes on
\* with the remaining items and rules.
C4_ExtractionFailureSkipsItem ==
    [][\A archive \in {"IndexError", "ExtractionError"} :
          DS_Item(archive) =>
             /\ log' # log
             /\ bids_mapping' = bids_mapping
             /\ pc' \in {"items", "seq"}]_vars

\* C5: empty answers never halt the pass: a pass all of whose queries were
\* empty still hands off to the converter and ends normally.
C5_EmptyQueriesReachHandoff ==
    [][(pc = "handoff" /\ stb.n_seq > 0 /\ bids_mapping = <<>>) =>
          (calls'.workflow = calls.workflow + 1)]_vars

\* C6: the temporary directories of a pass exist only inside that pass:
\* none exists once download_subject has ended, by return or by exception,
\* and none that exists was created by another pass.
C6_TmpDirsScopedToPass ==
    \A f \in tmp :
        f.name \in {"tmp_dicom", "tmp_archive"} =>
            InSubjectPass /\ f.pass = subject_n

C6_Witness ==
    /\ pc = "crashed"
    /\ exc = "ExtractionError"
    /\ subject_n = 2
    /\ tmp = {}
\* The dataset names the written heuristic maps.
MappedNames ==
    {heuristic.shanoir2bids[i].datasetName : i \in 1..Len(heuristic.shanoir2bids)}

\* The series of the last workflow call that carry a dataset name.
ItemsNamed(name) == {i \in 1..Len(seqinfo) : seqinfo[i] = name}

\* The entries of the classification that list series i.
KeysFiling(i) == {j \in 1..Len(info_final) : i \in Range(info_final[j][2])}

HasRunIndex(key) == RUN_ITEM \in Range(key.template)

FirstSeenOrder(ids) ==
    \A a, b \in 1..Len(ids) : a < b => ids[a] < ids[b]

\* The target (subdirectory, base name) the heuristic gives a dataset name:
\* that of the last mapping entry with this name.
TargetOf(name) ==
    LET m == heuristic.shanoir2bids
        n == CHOOSE i \in 1..Len(m) :
                /\ m[i].datasetName = name
                /\ \A k \in (i + 1)..Len(m) : m[k].datasetName # name
    IN  <<m[n].bidsDir, m[n].bidsName>>

\* The series whose dataset name has the same target as `name`.
SeriesOfTarget(name) ==
    {i \in 1..Len(seqinfo) :
        seqinfo[i] \in MappedNames /\ TargetOf(seqinfo[i]) = TargetOf(name)}

\* C7 as stated: per dataset name, one item is filed under a key without the
\* run index, N > 1 items are filed under one key that keeps it, in
\* first-seen order.
C7_RunIndexPerDatasetName ==
    \A name \in MappedNames :
        (pc = "classified" /\ ItemsNamed(name) # {}) =>
            \E j \in 1..Len(info_final) :
                /\ \A i \in ItemsNamed(name) : KeysFiling(i) = {j}
                /\ FirstSeenOrder(info_final[j][2])
                /\ HasRunIndex(info_final[j][1])
                      <=> Cardinality(ItemsNamed(name)) > 1

\* C7 as amended: the items of a dataset name are filed under one key, in
\* first-seen order, together with the items of every name that has the
\* same target subdirectory and base name; the key keeps the run index
\* exactly when more than one item is filed under it.
C7_RunIndexPerKey ==
    /\ \A name \in MappedNames :
          (pc = "classified" /\ ItemsNamed(name) # {}) =>
            \E j \in 1..Len(info_final) :
                /\ \A i \in ItemsNamed(name) : KeysFiling(i) = {j}
                /\ Range(info_final[j][2]) = SeriesOfTarget(name)
                /\ FirstSeenOrder(info_final[j][2])
                /\ HasRunIndex(info_final[j][1])
                      <=> Cardinality(SeriesOfTarget(name)) > 1
                /\ <<info_final[j][1].template[2],
                      info_final[j][1].template[Len(info_final[j][1].template)]>>
                      = TargetOf(name)
    /\ \A i \in 1..Len(seqinfo) :
          seqinfo[i] \notin MappedNames => KeysFiling(i) = {}
    /\ pc = "infotodict" => info_final = <<>>

C7_Witness ==
    \E j \in 1..Len(info_final) :
        /\ pc = "classified"
        /\ Len(info_final[j][2]) = 2
        /\ HasRunIndex(info_final[j][1])
        /\ seqinfo[info_final[j][2][1]] # seqinfo[info_final[j][2][2]]

\* C8: the extension set written into the heuristic is the one of the
\* --outformat the user chose: dicom, nii.gz, or both.
C8_OuttypeFollowsOutformat ==
    heuristic.written =>
        Range(heuristic.outtype) =
            CASE argv.outformat = "dicom" -> {"dicom"}
              [] argv.outformat = "nifti" -> {"nii.gz"}
              [] argv.outformat = "both" -> {"dicom", "nii.gz"}

\* The allow-list of top-level keys, as the specification lists it.
AllowList ==
    {K_JSON_STUDY_NAME, K_JSON_L_SUBJECTS, K_JSON_SESSION, K_JSON_DATA_DICT,
     K_JSON_FIND_AND_REPLACE, K_DCM2NIIX_PATH, K_DCM2NIIX_OPTS,
     K_JSON_DATE_FROM, K_JSON_DATE_TO}

\* C9: the unknown-key warning is printed for a key of the document if and
\* only if the key is outside the allow-list.
C9_WarningIffOutsideAllowList ==
    pc # "main" => printed = doc.keys \ AllowList

\* The configuration has been loaded into the instance.
Loaded == pc \notin {"main", "exited"}

\* C10 as stated: a loaded configuration has a non-empty study name, subject
\* list and sequence-rule list.
C10_LoadedIsNonEmpty ==
    Loaded =>
        /\ stb.shanoir_study_id # <<>>
        /\ stb.shanoir_subjects # <<>>
        /\ stb.shanoir2bids_dict # <<>>

\* C10 as amended: the loader rejects a document exactly when a mandatory
\* key is absent; a loaded configuration holds the document's study name,
\* subject list and sequence-rule list as they are, empty or not.
C10_LoadedIffKeysPresent ==
    /\ pc # "main" => (pc = "exited" <=> ~(MandatoryKeys \subseteq doc.keys))
    /\ Loaded =>
          /\ stb.shanoir_study_id = doc.study_name
          /\ stb.shanoir_subjects = doc.subjects
          /\ stb.shanoir2bids_dict = doc.data_to_bids
          /\ stb.n_seq = Len(doc.data_to_bids)

C10_Witness ==
    /\ pc = "seq"
    /\ stb.shanoir_study_id = <<>>
    /\ K_JSON_STUDY_NAME \in doc.keys

\* The occurrences of f that a literal replace-all of f in s replaces: the
\* leftmost ones that do not overlap.
MatchesAt(s, f, p) ==
    /\ p + Len(f) - 1 <= Len(s)
    /\ SubSeq(s, p, p + Len(f) - 1) = f

Occurrences(s, f) ==
    CHOOSE P \in SUBSET {p \in 1..Len(s) : MatchesAt(s, f, p)} :
        /\ \A p, q \in P : p < q => p + Len(f) <= q
        /\ \A q \in {p \in 1..Len(s) : MatchesAt(s, f, p)} \ P :
              \E p \in P : p < q /\ q < p + Len(f)

RECURSIVE Concat(_)
Concat(pieces) ==
    IF pieces = <<>> THEN <<>> ELSE Head(pieces) \o Concat(Tail(pieces))

\* s with every occurrence of the non-empty text f replaced by t.
LiteralReplaceAll(s, f, t) ==
    LET P == Occurrences(s, f)
    IN  Concat([i \in 1..Len(s) |->
                   IF i \in P THEN t
                   ELSE IF \E p \in P : p < i /\ i < p + Len(f) THEN <<>>
                   ELSE <<s[i]>>])

\* The rules of a list applied from the first to the last.
RECURSIVE RenamedBy(_, _)
RenamedBy(s, rules) ==
    IF rules = <<>> THEN s
    ELSE RenamedBy(LiteralReplaceAll(s, Head(rules).find, Head(rules).replace),
                   Tail(rules))

Far(f, r) == [find |-> f, replace |-> r]

\* C11: the normalized subject id of an item is its raw subject name after
\* every rename rule, in declaration order, each a literal replace-all on
\* the output of the previous one; "ab"->"a" then "a"->"X" and the reverse
\* differ; " "->"_" turns "John Doe" into "John_Doe"; an empty list leaves
\* the name as it is.
C11_RenameInDeclarationOrder ==
    pc = "renamed" =>
        LET raw == content[item_n].subjectName
            rules == stb.list_fars
        IN  /\ subject_id = RenamedBy(raw, rules)
            /\ rules = <<>> => subject_id = raw
            /\ (rules = <<Far(<<" ">>, <<"_">>)>> /\ raw = JohnDoe) =>
                  subject_id = <<"J", "o", "h", "n", "_", "D", "o", "e">>
            /\ (rules = <<Far(<<"a", "b">>, <<"a">>), Far(<<"a">>, <<"X">>)>>
                 /\ raw = <<"a", "b">>) => subject_id = <<"X">>
            /\ (rules = <<Far(<<"a">>, <<"X">>), Far(<<"a", "b">>, <<"a">>)>>
                 /\ raw = <<"a", "b">>) => subject_id = <<"X", "b">>

C11_Witness ==
    /\ pc = "renamed"
    /\ stb.list_fars = <<Far(<<"a">>, <<"X">>), Far(<<"a", "b">>, <<"a">>)>>
    /\ content[item_n].subjectName = <<"a", "b", "a">>
    /\ subject_id = <<"X", "b", "X">>

\* A text with every space replaced by the wildcard w.
Wild(s, w) == [i \in 1..Len(s) |-> IF s[i] = " " THEN w ELSE s[i]]

\* The session filter and the date bounds a document asks for.
SessionFilter ==
    IF K_JSON_SESSION \in doc.keys THEN DocSession ELSE <<"*">>

DateBound(key, value) ==
    IF key \notin doc.keys \/ value = <<>> THEN <<"*">> ELSE value

\* The query for the current subject and the k-th sequence rule.
ExpectedQuery(k) ==
    <<"studyName:">> \o Wild(doc.study_name, "?")
    \o <<" AND datasetName:">> \o Wild(doc.data_to_bids[k].datasetName, "?")
    \o <<" AND subjectName:">> \o Wild(doc.subjects[subject_n], "?")
    \o <<" AND examinationComment:">> \o Wild(SessionFilter, "*")
    \o <<" AND examinationDate:[">>
    \o DateBound(K_JSON_DATE_FROM, doc.date_from) \o <<" TO ">>
    \o DateBound(K_JSON_DATE_TO, doc.date_to) \o <<"]">>

\* The sequence rule of the last query of the pass, 0 before the first.
LastQueried == IF pc = "items" THEN seq ELSE seq - 1

\* C12: the query of a (subject, sequence rule) pair is the AND of the five
\* clauses study name, dataset name, subject name, session comment and
\* examination-date range; a space is ? in the three names and * in the
\* session filter; an absent session is *, and absent or empty dates give
\* [* TO *].
C12_QueryHasFiveClauses ==
    InSubjectPass =>
        /\ search_txt =
              IF LastQueried = 0 THEN <<>> ELSE ExpectedQuery(LastQueried)
        /\ (/\ LastQueried > 0
            /\ K_JSON_SESSION \notin doc.keys
            /\ K_JSON_DATE_FROM \in doc.keys => doc.date_from = <<>>
            /\ K_JSON_DATE_TO \in doc.keys => doc.date_to = <<>>) =>
              SubSeq(search_txt, Len(search_txt) - 6, Len(search_txt)) =
                  <<" AND examinationComment:", "*", " AND examinationDate:[",
                    "*", " TO ", "*", "]">>

C12_Witness ==
    /\ pc = "items"
    /\ doc.keys \cap OptionalDocKeys = {K_JSON_SESSION, K_JSON_DATE_FROM}
    /\ doc.date_from = <<>>
    /\ search_txt =
          <<"studyName:", "S", "?", "1", " AND datasetName:", "T", "2", "?",
            "w", " AND subjectName:", "s", "?", "A",
            " AND examinationComment:", "V", "*", "1",
            " AND examinationDate:[", "*", " TO ", "*", "]">>

\* A pass of download_subject has ended, by return or by exception.
PassEnded == subject_n > 0 /\ pc \in {"subjects", "done", "crashed"}

\* Failures of a collaborator for which no step of the pass is promised.
UnabsorbedFailures == {"SearchError", "DownloadError", "OSError"}

\* C13: a pass goes INIT, then QUERY, DOWNLOAD, EXTRACT per sequence rule,
\* then EMIT_HEURISTIC, HANDOFF_TO_CONVERTER, DONE: the heuristic is written
\* only after the last rule, the workflow is invoked only after the
\* heuristic and the converter options were written and exactly once in
\* every pass, and nothing of an earlier pass is left when a pass runs.
C13_PassFollowsStateMachine ==
    /\ heuristic.written => seq > stb.n_seq
    /\ calls.workflow > 0 =>
          heuristic.written /\ calls.heuristic = 1 /\ calls.dcmconfig = 1
    /\ calls.workflow <= 1
    /\ InSubjectPass => \A f \in tmp : f.pass = subject_n
    /\ (PassEnded /\ exc \notin UnabsorbedFailures) => calls.workflow = 1

\* The mapping entry has the dataset name of the returned item and the
\* target of the rule whose query returned it, and belongs to this pass.
EntryOf(e, r) ==
    /\ e.datasetName = r.item.datasetName
    /\ e.bidsDir = doc.data_to_bids[r.rule].bidsDir
    /\ e.bidsName = doc.data_to_bids[r.rule].bidsName
    /\ e.bids_subject_id = RenamedBy(r.item.subjectName, stb.list_fars)

\* C14: the list given to the heuristic of a subject has one entry per item
\* that the queries of this subject returned, in rule order and then in
\* result order, each with the target subdirectory and base name of the
\* rule whose query returned it; the list is empty when a pass starts and
\* holds no entry of another pass.
C14_MappingIsPassResults ==
    /\ heuristic.written =>
          /\ Len(heuristic.shanoir2bids) = Len(returned)
          /\ \A i \in 1..Len(returned) :
                EntryOf(heuristic.shanoir2bids[i], returned[i])
    /\ \A i, j \in 1..Len(returned) :
          i < j => returned[i].rule <= returned[j].rule
    /\ InSubjectPass =>
          /\ Len(bids_mapping) <= Len(returned)
          /\ \A i \in 1..Len(bids_mapping) :
                EntryOf(bids_mapping[i], returned[i])
    /\ (pc = "seq" /\ seq = 1) => bids_mapping = <<>>

C14_Witness ==
    /\ heuristic.written
    /\ subject_n = 2
    /\ Len(heuristic.shanoir2bids) = 2
    /\ returned[1].rule = 2
    /\ returned[2].rule = 2
    /\ returned[1].item # returned[2].item

\* C15: at hand-off the subject passed is the normalized id of the last
\* item processed in the pass; in longitudinal mode the session passed is
\* the target session of the last sequence rule, whatever the rules
\* returned and whatever sessions the mapping entries carry; otherwise no
\* session is passed and every mapping entry has a null session.
C15_HandoffTakesLastIteration ==
    workflow_params.called =>
        /\ workflow_params.subjs =
              <<RenamedBy(returned[Len(returned)].item.subjectName,
                          stb.list_fars)>>
        /\ argv.longitudinal =>
              workflow_params.session =
                  doc.data_to_bids[Len(doc.data_to_bids)].bidsSession
        /\ ~argv.longitudinal =>
              /\ workflow_params.session = None
              /\ \A i \in 1..Len(bids_mapping) :
                    bids_mapping[i].bids_session_id = None

C15_Witness ==
    /\ workflow_params.called
    /\ workflow_params.session = "02"
    /\ Len(bids_mapping) = 2
    /\ \A i \in 1..Len(bids_mapping) : bids_mapping[i].bids_session_id = "01"
    /\ workflow_params.subjs # <<bids_mapping[1].bids_subject_id>>
====
